---- MODULE Spec2Model ----
(***************************************************************************)
(* Model of the Egyptian Labor Law RAG service: the LaborRAG pipeline of   *)
(* rag.py (embed_query, search_index, rerank_results, build_prompt,        *)
(* call_llm, generate_related_questions, run_query) and the /ask handler   *)
(* of api.py that serves it.                                               *)
(*                                                                         *)
(* Two specifications:                                                     *)
(*   Spec      the service: /ask requests handled one stage at a time;     *)
(*   SpecUnit  direct calls of search_index, rerank_results and            *)
(*             generate_related_questions with arbitrary arguments.        *)
(***************************************************************************)
EXTENDS Integers, Sequences, FiniteSets, TLC

VARIABLES
    chunks,      \* self.chunks: the Fragment Store, a sequence of [id, content]
    pc,          \* position of the ask_question handler / of the direct caller
    query,       \* the query of the request being served
    rows,        \* indices[0]: the row numbers the FAISS index returned last
    response,    \* the last remote response received through make_request
    results,     \* run_query's `results` / rerank_results' `documents`
    reranked,    \* run_query's `reranked_results`
    prompt,      \* run_query's `prompt`
    outcome,     \* how the function under call ended: returned a value or raised
    http,        \* the HTTP response of /ask
    calls,       \* pipeline stages invoked for the current request, in order
    remote,      \* remote requests sent through make_request, in order
    questions,   \* the value generate_related_questions returned
    artifacts,   \* which of index.faiss and chunks.json exist on disk
    inv          \* the frames of run_query invocations running concurrently

vars == <<chunks, pc, query, rows, response, results, reranked, prompt,
          outcome, http, calls, remote, questions, artifacts, inv>>

----------------------------------------------------------------------------
(* Bounds of the model *)

MaxChunks == 2      \* the Fragment Store of the service holds 0..MaxChunks fragments
MaxUnitChunks == 3  \* the Fragment Store holds 0..MaxUnitChunks fragments in a direct call
MaxRows == 2        \* rows one index search of the service returns
MaxUnitRows == 3    \* rows one index search returns in a direct call
MaxResp == 2        \* results in one rerank response
MaxCands == 2       \* candidates handed to rerank_results in a direct call
MaxLines == 4       \* lines in one related-questions completion
MaxTextLen == 4     \* characters of a text handed to detect_language
ConcChunks == 1     \* fragments of the store that concurrent invocations share
ConcRows == 1       \* rows one index search returns to a concurrent invocation
ConcResp == 1       \* results in one rerank response to a concurrent invocation

(* Program constants *)

index_result_count == 50
rerank_result_count == 5
MinQuestionLen == 10
MaxQuestions == 3
HTTP_OK == 200

----------------------------------------------------------------------------
(* Values *)

None == "None"                      \* Python's None
Min(a, b) == IF a < b THEN a ELSE b
Last(s) == s[Len(s)]
Range(s) == {s[i] : i \in 1..Len(s)}
SeqsUpTo(S, n) == UNION {[1..k -> S] : k \in 0..n}

\* The i-th fragment of the corpus (1-based here, row i-1 of the index).
Fragment(i) == [id |-> ToString(i), content |-> "content-" \o ToString(i)]
Store(n) == [i \in 1..n |-> Fragment(i)]
Stores == {Store(n) : n \in 0..MaxChunks}
UnitStores == {Store(n) : n \in 0..MaxUnitChunks}

\* Queries a request can carry: a missing one, an empty one, real ones.
Queries == {None, "", "q"}

\* Remote responses: HTTP status, body text, and the decoded payload.
Response(status, text, items, content) ==
    [status |-> status, text |-> text, results |-> items, content |-> content]
NoResponse == Response(0, "", <<>>, "")
FailStatuses == {429, 500}
ErrorBody(status) == "error-" \o ToString(status)
Completions == {"", "answer"}

\* How a call ended.
NoOutcome == [kind |-> "none", value |-> <<>>, message |-> <<>>]
Return(v) == [kind |-> "return", value |-> v, message |-> <<>>]
\* raise Exception(f"<what> API failed: {status_code} - {text}")
Raise(what, status, text) ==
    [kind |-> "raise", value |-> <<>>, message |-> <<what, status, text>>]

NoHttp == [status |-> 0, body |-> <<>>]

\* A request handed to make_request.
Request(url, input) == [url |-> url, input |-> input]
\* What a pipeline function did: how it ended and the requests it sent.
Did(out, sent) == [out |-> out, sent |-> sent]

----------------------------------------------------------------------------
(* The pipeline functions of LaborRAG (rag.py) *)

\* embed_query sending its request a second time when the first one failed.
embed_query_retry(q, resp) ==
    Did(IF resp.status = HTTP_OK
          THEN Return(resp.content)
          ELSE Raise("Embedding", resp.status, resp.text),
        IF resp.status = HTTP_OK
          THEN <<Request("embeddings", <<q>>)>>
          ELSE <<Request("embeddings", <<q>>), Request("embeddings", <<q>>)>>)

\* embed_query: one request carrying the query; the embedding on 200, else raise.
embed_query(q, resp) ==
    Did(IF resp.status = HTTP_OK
          THEN Return(resp.content)
          ELSE Raise("Embedding", resp.status, resp.text),
        <<Request("embeddings", <<q>>)>>)

\* The loop of search_index over indices[0]: rows outside [0, len(chunks)) are
\* skipped; the others are resolved by position.
RECURSIVE search_loop(_, _, _)
search_loop(store, idxs, acc) ==
    IF idxs = <<>> THEN acc
    ELSE LET idx == Head(idxs) IN
         IF idx < 0 \/ idx >= Len(store)
           THEN search_loop(store, Tail(idxs), acc)
           ELSE search_loop(store, Tail(idxs),
                    Append(acc, [id |-> store[idx + 1].id,
                                 content |-> store[idx + 1].content]))

\* The same loop without the `idx < 0` test: Python resolves a negative
\* position from the end of the list, and IndexError is caught and skipped.
RECURSIVE search_loop_negative(_, _, _)
search_loop_negative(store, idxs, acc) ==
    IF idxs = <<>> THEN acc
    ELSE LET idx == Head(idxs)
             pos == IF idx < 0 THEN Len(store) + idx + 1 ELSE idx + 1
         IN  IF idx >= Len(store) \/ pos < 1
               THEN search_loop_negative(store, Tail(idxs), acc)
               ELSE search_loop_negative(store, Tail(idxs),
                        Append(acc, [id |-> store[pos].id,
                                     content |-> store[pos].content]))

\* search_index keeping a placeholder hit for a row outside the store instead
\* of skipping the row.
RECURSIVE search_loop_keeps_bad_rows(_, _, _)
search_loop_keeps_bad_rows(store, idxs, acc) ==
    IF idxs = <<>> THEN acc
    ELSE LET idx == Head(idxs) IN
         IF idx < 0 \/ idx >= Len(store)
           THEN search_loop_keeps_bad_rows(store, Tail(idxs),
                    Append(acc, [id |-> ToString(idx), content |-> ""]))
           ELSE search_loop_keeps_bad_rows(store, Tail(idxs),
                    Append(acc, [id |-> store[idx + 1].id,
                                 content |-> store[idx + 1].content]))

search_index_keeps_bad_rows(store, idxs) == search_loop_keeps_bad_rows(store, idxs, <<>>)

search_index_negative(store, idxs) == search_loop_negative(store, idxs, <<>>)

search_index(store, idxs) == search_loop(store, idxs, <<>>)

\* The loop of rerank_results without the `original_index < 0` test: Python
\* resolves a negative position from the end of the list.
RECURSIVE rerank_loop_negative(_, _, _)
rerank_loop_negative(documents, items, acc) ==
    IF items = <<>> THEN acc
    ELSE LET item == Head(items)
             pos == IF item.index < 0 THEN Len(documents) + item.index + 1
                    ELSE item.index + 1
         IN  IF item.index >= Len(documents) \/ pos < 1
               THEN rerank_loop_negative(documents, Tail(items), acc)
               ELSE rerank_loop_negative(documents, Tail(items),
                        Append(acc, [document |-> item.document,
                                     relevance_score |-> item.relevance_score,
                                     article_id |-> documents[pos].id]))

\* The loop of rerank_results over result["results"]: positions outside
\* [0, len(documents)) are skipped; the others are joined to the candidate's id.
RECURSIVE rerank_loop(_, _, _)
rerank_loop(documents, items, acc) ==
    IF items = <<>> THEN acc
    ELSE LET item == Head(items)
             original_index == item.index
         IN  IF original_index < 0 \/ original_index >= Len(documents)
               THEN rerank_loop(documents, Tail(items), acc)
               ELSE rerank_loop(documents, Tail(items),
                        Append(acc, [document |-> item.document,
                                     relevance_score |-> item.relevance_score,
                                     article_id |-> documents[original_index + 1].id]))

doc_contents(documents) == [i \in 1..Len(documents) |-> documents[i].content]

\* rerank_results without its `if not documents` short-circuit.
rerank_results_always_asks(q, documents, resp) ==
    Did(IF resp.status = HTTP_OK
          THEN Return(rerank_loop(documents, resp.results, <<>>))
          ELSE Raise("Rerank", resp.status, resp.text),
        <<Request("rerank", doc_contents(documents))>>)

\* rerank_results answering a failed remote call with the empty list, as its
\* docstring has it ("Returns empty list if ... reranking fails").
rerank_results_swallow(q, documents, resp) ==
    IF documents = <<>>
      THEN Did(Return(<<>>), <<>>)
      ELSE Did(IF resp.status = HTTP_OK
                 THEN Return(rerank_loop(documents, resp.results, <<>>))
                 ELSE Return(<<>>),
               <<Request("rerank", doc_contents(documents))>>)

\* rerank_results: no request for an empty candidate list; otherwise one request
\* with all candidate contents, the joined results on 200, else raise.
rerank_results(q, documents, resp) ==
    IF documents = <<>>
      THEN Did(Return(<<>>), <<>>)
      ELSE Did(IF resp.status = HTTP_OK
                 THEN Return(rerank_loop(documents, resp.results, <<>>))
                 ELSE Raise("Rerank", resp.status, resp.text),
               <<Request("rerank", doc_contents(documents))>>)

\* build_prompt: the reference block, one "[Article <id>]: <text>" block per
\* ranked hit in the order given, and the query, in a fixed template.
build_prompt(user_query, reranked_results, reference_chunk) ==
    [reference |-> reference_chunk,
     context |-> [i \in 1..Len(reranked_results) |->
                     <<reranked_results[i].article_id, reranked_results[i].document>>],
     user_query |-> user_query]

\* call_llm returning the body of the response instead of the completion in it.
call_llm_raw_body(p, resp) ==
    Did(IF resp.status = HTTP_OK
          THEN Return(resp.text)
          ELSE Raise("LLM", resp.status, resp.text),
        <<Request("chat/completions", <<p>>)>>)

\* call_llm: one request carrying the prompt; the completion on 200, else raise.
call_llm(p, resp) ==
    Did(IF resp.status = HTTP_OK
          THEN Return(resp.content)
          ELSE Raise("LLM", resp.status, resp.text),
        <<Request("chat/completions", <<p>>)>>)

\* Texts are sequences of one-character strings.
Rep(c, n) == [i \in 1..n |-> c]
Whitespace == {" ", "\t", "\n"}
\* The characters of lstrip("0123456789.-) ").
EnumerationMarkers == {"0", "1", "2", "3", "4", "5", "6", "7", "8", "9", ".", "-", ")", " "}

\* str.lstrip(chars), str.rstrip(), str.strip()
RECURSIVE lstrip(_, _)
lstrip(s, chars) ==
    IF s # <<>> /\ Head(s) \in chars THEN lstrip(Tail(s), chars) ELSE s
RECURSIVE rstrip(_)
rstrip(s) ==
    IF s # <<>> /\ Last(s) \in Whitespace THEN rstrip(SubSeq(s, 1, Len(s) - 1)) ELSE s
strip(s) == rstrip(lstrip(s, Whitespace))

\* str.split(sep): the pieces between the separators, empty pieces included.
RECURSIVE split_loop(_, _, _, _)
split_loop(s, sep, piece, acc) ==
    IF s = <<>> THEN Append(acc, piece)
    ELSE IF Head(s) = sep
           THEN split_loop(Tail(s), sep, <<>>, Append(acc, piece))
           ELSE split_loop(Tail(s), sep, Append(piece, Head(s)), acc)
split(s, sep) == split_loop(s, sep, <<>>, <<>>)

\* The lines of the completion that are not blank, each stripped of surrounding
\* whitespace and of leading enumeration markers (rag.py 342-346).
clean_lines(questions_text) ==
    LET lines == SelectSeq(split(strip(questions_text), "\n"),
                           LAMBDA q : strip(q) # <<>>)
    IN  [i \in 1..Len(lines) |-> lstrip(strip(lines[i]), EnumerationMarkers)]

\* [q for q in questions if len(q) > 10] without the [:3] that follows it.
parse_questions_unbounded(questions_text) ==
    SelectSeq(clean_lines(questions_text), LAMBDA q : Len(q) > MinQuestionLen)

\* [q for q in questions if len(q) > 10][:3]
parse_questions(questions_text) ==
    LET long == SelectSeq(clean_lines(questions_text),
                          LAMBDA q : Len(q) > MinQuestionLen)
    IN  SubSeq(long, 1, Min(MaxQuestions, Len(long)))

\* No HTTP response at all: requests.post raised.
NoStatus == -1

\* generate_related_questions without its try/except: a request that raises
\* and a body that cannot be read end the call with the exception.
generate_related_questions_unguarded(original_query, answer, resp) ==
    Did(IF resp.status = HTTP_OK /\ resp.text = "ok"
          THEN Return(parse_questions(resp.content))
          ELSE IF resp.status \in {HTTP_OK, NoStatus}
                 THEN Raise("Related questions", resp.status, resp.text)
                 ELSE Return(<<>>),
        <<Request("chat/completions", <<original_query, answer>>)>>)

\* generate_related_questions: one request; on 200 the parsed questions; on any
\* other status, on an exception of the request and on a body that cannot be
\* read, the empty list.
generate_related_questions(original_query, answer, resp) ==
    Did(Return(IF resp.status = HTTP_OK /\ resp.text = "ok"
                 THEN parse_questions(resp.content)
                 ELSE <<>>),
        <<Request("chat/completions", <<original_query, answer>>)>>)

\* Characters for language detection: the code point and what str.isalpha()
\* answers for it.
Char(name, code, alpha) == [name |-> name, code |-> code, alpha |-> alpha]
DirectionChars ==
    { Char("LATIN SMALL LETTER H", 104, TRUE),
      Char("DIGIT ONE", 49, FALSE),
      Char("ARABIC LETTER MEEM", 1605, TRUE),
      Char("ARABIC QUESTION MARK", 1567, FALSE) }

\* "؀" <= c <= "ۿ"
InArabicRange(c) == 1536 <= c.code /\ c.code <= 1791

\* detect_language (app.py) and the same test in generate_related_questions:
\* arabic_chars counts every character of the range, total_chars every
\* alphabetic character; arabic_chars / total_chars > 0.5 is 2 * arabic_chars >
\* total_chars for the positive total_chars it is evaluated with.
detect_language(text) ==
    LET arabic_chars == Cardinality({i \in 1..Len(text) : InArabicRange(text[i])})
        total_chars == Cardinality({i \in 1..Len(text) : text[i].alpha})
    IN  IF total_chars > 0 /\ 2 * arabic_chars > total_chars THEN "rtl" ELSE "ltr"

\* What faiss.read_index raises for a file it cannot open: the library reports
\* it with RuntimeError; FileNotFoundError is what load_files is written for.
ReadIndexErrors == {"RuntimeError", "FileNotFoundError"}

\* load_files: read the index, then the chunks; FileNotFoundError ends the
\* process with sys.exit(1), any other exception leaves __init__ as it is.
load_files(present, index_error) ==
    IF ~present.index
      THEN IF index_error = "FileNotFoundError" THEN "exited" ELSE "raised"
      ELSE IF ~present.chunks THEN "exited" ELSE "loaded"

\* The reference fragment run_query hands to build_prompt: self.chunks[0]["content"].
reference_chunk(store) == store[1].content

\* run_query without its `if not results` test.
run_query_after_search_unchecked(res) == "rerank"

\* run_query after search_index: an empty result list ends the query with "".
run_query_after_search(res) == IF res = <<>> THEN "abort" ELSE "rerank"

\* run_query without its `if not reranked_results` test.
run_query_after_rerank_unchecked(rr) == "prompt"

\* run_query after rerank_results: an empty ranked list ends the query with "".
run_query_after_rerank(rr) == IF rr = <<>> THEN "abort" ELSE "prompt"

----------------------------------------------------------------------------
(* The /ask handler of api.py *)

\* raise HTTPException(status_code, detail): what it is and how it is answered.
HTTPException(status, detail) == [status |-> status, body |-> [detail |-> detail]]

\* `if not query` / `if not answer`
Falsy(x) == x = None \/ x = ""

\* except Exception as e: every exception raised inside the try block, the
\* HTTPExceptions of the handler included, is answered with status 500.
ask_except(e) == HTTPException(500, e)

\* ask_question once run_query has ended with `out`.
ask_after_run(out) ==
    IF out.kind = "raise"
      THEN ask_except(out.message)
      ELSE IF Falsy(out.value)
             THEN ask_except(HTTPException(404, "No answer generated"))
             ELSE [status |-> HTTP_OK, body |-> [answer |-> out.value]]

----------------------------------------------------------------------------
(* What the collaborators can answer *)

EmbedResponses ==
    {Response(HTTP_OK, "ok", <<>>, "vector")}
        \cup {Response(st, ErrorBody(st), <<>>, "") : st \in FailStatuses}

LLMResponses ==
    {Response(HTTP_OK, "ok", <<>>, c) : c \in Completions}
        \cup {Response(st, ErrorBody(st), <<>>, "") : st \in FailStatuses}

\* One result of a rerank response for a batch: a position (one below the batch,
\* in it, or one past it) and the document text echoed with it, which is the
\* text submitted at that position or some other text.
RerankItems(documents) ==
    {[index |-> i, document |-> d, relevance_score |-> 1] :
        i \in -1..Len(documents), d \in {"other text"}}
    \cup {[index |-> i - 1, document |-> documents[i].content, relevance_score |-> 1] :
        i \in 1..Len(documents)}

RerankResponses(documents) ==
    {Response(HTTP_OK, "ok", items, "") :
        items \in SeqsUpTo(RerankItems(documents), MaxResp)}
        \cup {Response(st, ErrorBody(st), <<>>, "") : st \in FailStatuses}

\* Row numbers an index search can return for a store of n fragments: -1 (fewer
\* neighbours than asked for), rows of the store, rows past its end (desync).
IndexRows(n, past, len) == SeqsUpTo(-1..(n + past - 1), Min(len, index_result_count))

----------------------------------------------------------------------------
(* The service: /ask requests, each served one pipeline stage at a time *)

Init ==
    /\ artifacts \in [index : BOOLEAN, chunks : BOOLEAN]
    /\ inv = <<>>
    /\ chunks = <<>>
    /\ pc = "start"
    /\ query = None
    /\ rows = <<>>
    /\ response = NoResponse
    /\ results = <<>>
    /\ reranked = <<>>
    /\ prompt = <<>>
    /\ outcome = NoOutcome
    /\ http = NoHttp
    /\ calls = <<>>
    /\ remote = <<>>
    /\ questions = <<>>

\* rag_system = LaborRAG(chunks_file, index_file) at the start of the process:
\* the pipeline is loaded, or the process exits, or the constructor raises.
LoadFiles ==
    /\ pc = "start"
    /\ \E index_error \in ReadIndexErrors, store \in Stores :
        LET ended == load_files(artifacts, index_error) IN
        IF ended = "loaded"
          THEN chunks' = store /\ pc' = "idle"
          ELSE chunks' = chunks /\ pc' = ended
    /\ UNCHANGED <<query, rows, response, results, reranked, prompt, outcome, http,
                   calls, remote, questions, artifacts, inv>>

\* run_query ends with `out`.
Ends(out) == outcome' = out /\ pc' = "returned"

\* ask_question receives a request (api.py 41-49): nothing is left of the
\* request before; a missing or empty query is refused, else run_query starts.
Ask ==
    /\ pc \in {"idle", "responded"}
    /\ \E q \in Queries :
        /\ query' = q
        /\ IF Falsy(q)
             THEN /\ http' = ask_except(HTTPException(400, "Query is required"))
                  /\ pc' = "responded"
             ELSE /\ http' = NoHttp
                  /\ pc' = "embed"
    /\ rows' = <<>> /\ response' = NoResponse /\ results' = <<>>
    /\ reranked' = <<>> /\ prompt' = <<>> /\ outcome' = NoOutcome
    /\ calls' = <<>> /\ remote' = <<>>
    /\ UNCHANGED <<chunks, questions>>
    /\ UNCHANGED <<artifacts, inv>>

\* query_embedding = self.embed_query(query)
EmbedQuery ==
    /\ pc = "embed"
    /\ \E resp \in EmbedResponses :
        LET d == embed_query(query, resp) IN
        /\ response' = resp
        /\ remote' = remote \o d.sent
        /\ IF d.out.kind = "raise"
             THEN Ends(d.out)
             ELSE pc' = "search" /\ outcome' = outcome
    /\ calls' = Append(calls, "embed")
    /\ UNCHANGED <<chunks, query, rows, results, reranked, prompt, http, questions>>
    /\ UNCHANGED <<artifacts, inv>>

\* results = self.search_index(query_embedding); if not results: return ""
SearchIndex ==
    /\ pc = "search"
    /\ \E idxs \in IndexRows(Len(chunks), 1, MaxRows) :
        LET res == search_index(chunks, idxs) IN
        /\ rows' = idxs
        /\ results' = res
        /\ IF run_query_after_search(res) = "abort"
             THEN Ends(Return(""))
             ELSE pc' = "rerank" /\ outcome' = outcome
    /\ calls' = Append(calls, "search")
    /\ UNCHANGED <<chunks, query, response, reranked, prompt, http, remote, questions>>
    /\ UNCHANGED <<artifacts, inv>>

\* reranked_results = self.rerank_results(query, results);
\* if not reranked_results: return ""
RerankResults ==
    /\ pc = "rerank"
    /\ \E resp \in RerankResponses(results) :
        LET d == rerank_results(query, results, resp) IN
        /\ response' = IF d.sent = <<>> THEN response ELSE resp
        /\ remote' = remote \o d.sent
        /\ IF d.out.kind = "raise"
             THEN Ends(d.out) /\ reranked' = reranked
             ELSE /\ reranked' = d.out.value
                  /\ IF run_query_after_rerank(d.out.value) = "abort"
                       THEN Ends(Return(""))
                       ELSE pc' = "prompt" /\ outcome' = outcome
    /\ calls' = Append(calls, "rerank")
    /\ rows' = <<>>
    /\ UNCHANGED <<chunks, query, results, prompt, http, questions>>
    /\ UNCHANGED <<artifacts, inv>>

\* prompt = self.build_prompt(query, reranked_results, self.chunks[0]["content"])
BuildPrompt ==
    /\ pc = "prompt"
    /\ IF chunks = <<>>
         THEN Ends(Raise("IndexError", 0, "list index out of range")) /\ prompt' = prompt
         ELSE /\ prompt' = build_prompt(query, reranked, reference_chunk(chunks))
              /\ pc' = "generate"
              /\ outcome' = outcome
    /\ calls' = Append(calls, "prompt")
    /\ UNCHANGED <<chunks, query, rows, response, results, reranked, http, remote,
                   questions>>
    /\ UNCHANGED <<artifacts, inv>>

\* answer = self.call_llm(prompt); return answer
CallLLM ==
    /\ pc = "generate"
    /\ \E resp \in LLMResponses :
        LET d == call_llm(prompt, resp) IN
        /\ response' = resp
        /\ remote' = remote \o d.sent
        /\ Ends(d.out)
    /\ calls' = Append(calls, "generate")
    /\ UNCHANGED <<chunks, query, rows, results, reranked, prompt, http, questions>>
    /\ UNCHANGED <<artifacts, inv>>

\* ask_question once run_query has returned or raised (api.py 49-60).
AskRespond ==
    /\ pc = "returned"
    /\ http' = ask_after_run(outcome)
    /\ pc' = "responded"
    /\ UNCHANGED <<chunks, query, rows, response, results, reranked, prompt, outcome,
                   calls, remote, questions>>
    /\ UNCHANGED <<artifacts, inv>>

Next ==
    \/ LoadFiles
    \/ Ask
    \/ EmbedQuery
    \/ SearchIndex
    \/ RerankResults
    \/ BuildPrompt
    \/ CallLLM
    \/ AskRespond

Spec == Init /\ [][Next]_vars

----------------------------------------------------------------------------
(* Direct calls: search_index, rerank_results and generate_related_questions *)
(* called on a loaded pipeline with arbitrary arguments and remote answers   *)

\* Candidate lists a caller can hand to rerank_results.
Candidates == SeqsUpTo({Fragment(i) : i \in 1..MaxCands}, MaxCands)

\* Lines a related-questions completion can be made of.
QuestionLines ==
    { <<>>,                                                    \* blank
      <<" ", "\t">>,                                           \* whitespace only
      <<"1", ".", " ">> \o Rep("a", MinQuestionLen + 1),       \* numbered
      Rep("b", MinQuestionLen) \o <<"?">>,                     \* un-numbered
      <<" ", "-", " ">> \o Rep("c", MinQuestionLen + 2) \o <<" ", " ">>,
      Rep("d", MinQuestionLen),                                \* too short
      <<"2", ")">> \o Rep("7", MinQuestionLen + 1) }           \* markers only

RECURSIVE join(_, _)
join(lines, sep) ==
    IF lines = <<>> THEN <<>>
    ELSE IF Len(lines) = 1 THEN Head(lines)
    ELSE Head(lines) \o <<sep>> \o join(Tail(lines), sep)

QuestionTexts == {join(ls, "\n") : ls \in SeqsUpTo(QuestionLines, MaxLines)}

\* What the Generation Client can answer to the related-questions request: a
\* completion, a failure status, a body that is not the expected JSON, nothing.
RelatedResponses ==
    {Response(HTTP_OK, "ok", <<>>, t) : t \in QuestionTexts}
        \cup {Response(st, ErrorBody(st), <<>>, <<>>) : st \in FailStatuses}
        \cup {Response(HTTP_OK, "not the expected JSON", <<>>, <<>>),
              Response(NoStatus, "ConnectionError", <<>>, <<>>)}

UnitInit ==
    /\ artifacts = [index |-> TRUE, chunks |-> TRUE]
    /\ inv = <<>>
    /\ chunks \in UnitStores
    /\ pc = "idle"
    /\ query = None
    /\ rows = <<>>
    /\ response = NoResponse
    /\ results = <<>>
    /\ reranked = <<>>
    /\ prompt = <<>>
    /\ outcome = NoOutcome
    /\ http = NoHttp
    /\ calls = <<>>
    /\ remote = <<>>
    /\ questions = <<>>

\* results = rag.search_index(embedding), the index returning `idxs`.
CallSearchIndex ==
    /\ pc = "idle"
    /\ \E idxs \in IndexRows(Len(chunks), 3, MaxUnitRows) :
        /\ rows' = idxs
        /\ results' = search_index(chunks, idxs)
        /\ outcome' = Return(search_index(chunks, idxs))
    /\ calls' = <<"search_index">>
    /\ pc' = "called"
    /\ UNCHANGED <<chunks, query, response, reranked, prompt, http, remote, questions>>
    /\ UNCHANGED <<artifacts, inv>>

\* reranked = rag.rerank_results(query, documents)
CallRerankResults ==
    /\ pc = "idle"
    /\ \E documents \in Candidates :
        \E resp \in RerankResponses(documents) :
            LET d == rerank_results("q", documents, resp) IN
            /\ results' = documents
            /\ response' = IF d.sent = <<>> THEN NoResponse ELSE resp
            /\ remote' = d.sent
            /\ outcome' = d.out
            /\ reranked' = IF d.out.kind = "return" THEN d.out.value ELSE <<>>
    /\ query' = "q"
    /\ calls' = <<"rerank_results">>
    /\ pc' = "called"
    /\ UNCHANGED <<chunks, rows, prompt, http, questions>>
    /\ UNCHANGED <<artifacts, inv>>

\* questions = rag.generate_related_questions(query, answer)
CallGenerateRelatedQuestions ==
    /\ pc = "idle"
    /\ \E resp \in RelatedResponses :
        LET d == generate_related_questions("q", "answer", resp) IN
        /\ response' = resp
        /\ remote' = d.sent
        /\ outcome' = d.out
        /\ questions' = d.out.value
    /\ query' = "q"
    /\ calls' = <<"generate_related_questions">>
    /\ pc' = "called"
    /\ UNCHANGED <<chunks, rows, results, reranked, prompt, http>>
    /\ UNCHANGED <<artifacts, inv>>

\* direction = detect_language(text)
CallDetectLanguage ==
    /\ pc = "idle"
    /\ \E text \in SeqsUpTo(DirectionChars, MaxTextLen) :
        /\ query' = text
        /\ outcome' = Return(detect_language(text))
    /\ calls' = <<"detect_language">>
    /\ pc' = "called"
    /\ UNCHANGED <<chunks, rows, response, results, reranked, prompt, http, remote,
                   questions>>
    /\ UNCHANGED <<artifacts, inv>>

\* The call is over; its values are dropped.
CallReturns ==
    /\ pc = "called"
    /\ pc' = "idle"
    /\ query' = None /\ rows' = <<>> /\ response' = NoResponse /\ results' = <<>>
    /\ reranked' = <<>> /\ outcome' = NoOutcome /\ calls' = <<>> /\ remote' = <<>>
    /\ questions' = <<>>
    /\ UNCHANGED <<chunks, prompt, http>>
    /\ UNCHANGED <<artifacts, inv>>

UnitNext ==
    \/ CallSearchIndex
    \/ CallRerankResults
    \/ CallGenerateRelatedQuestions
    \/ CallDetectLanguage
    \/ CallReturns

SpecUnit == UnitInit /\ [][UnitNext]_vars

----------------------------------------------------------------------------
(* Concurrent invocations of run_query on one shared pipeline *)

Invocations == {"a", "b"}

\* Where the locals of invocation i live: in the frame of its own call.
\* (A run_query keeping them in attributes of self would have one for all.)
slot_on_self(i) == "a"

slot(i) == i

\* run_query as a whole, for the index rows and the remote responses one
\* invocation is given.
run_query(q, embedded, idxs, ranked, completed) ==
    LET e == embed_query(q, embedded).out
        res == search_index(chunks, idxs)
        rr == rerank_results(q, res, ranked).out
    IN  IF e.kind = "raise" THEN e
        ELSE IF run_query_after_search(res) = "abort" THEN Return("")
        ELSE IF rr.kind = "raise" THEN rr
        ELSE IF run_query_after_rerank(rr.value) = "abort" THEN Return("")
        ELSE call_llm(build_prompt(q, rr.value, reference_chunk(chunks)), completed).out

\* The thread of an invocation: where it is, what it was called with, what it
\* was answered, what it handed to call_llm and how it ended.
NewThread(q) ==
    [pc |-> "embed", query |-> q, embedded |-> NoResponse, rows |-> <<>>,
     ranked |-> NoResponse, completed |-> NoResponse, asked |-> <<>>,
     outcome |-> NoOutcome]
\* The locals of one call of run_query.
NewLocals == [results |-> <<>>, reranked |-> <<>>, prompt |-> <<>>]

\* What the remote stages answer a concurrent invocation: a success, or the
\* one failure status.
ConcFailure == Response(500, ErrorBody(500), <<>>, "")
ConcEmbedResponses == {Response(HTTP_OK, "ok", <<>>, "vector"), ConcFailure}
ConcRerankResponses(documents) ==
    {Response(HTTP_OK, "ok", items, "") :
        items \in SeqsUpTo(RerankItems(documents), ConcResp)} \cup {ConcFailure}
ConcLLMResponses == {Response(HTTP_OK, "ok", <<>>, "answer"), ConcFailure}

ConcInit ==
    /\ artifacts = [index |-> TRUE, chunks |-> TRUE]
    /\ chunks = Store(ConcChunks)
    /\ inv = [thread |-> [i \in Invocations |-> NewThread("q-" \o i)],
              locals |-> [i \in Invocations |-> NewLocals]]
    /\ pc = "serving"
    /\ query = None
    /\ rows = <<>>
    /\ response = NoResponse
    /\ results = <<>>
    /\ reranked = <<>>
    /\ prompt = <<>>
    /\ outcome = NoOutcome
    /\ http = NoHttp
    /\ calls = <<>>
    /\ remote = <<>>
    /\ questions = <<>>

ConcUnchanged ==
    UNCHANGED <<chunks, pc, query, rows, response, results, reranked, prompt,
                outcome, http, calls, remote, questions, artifacts>>

\* Invocation i moves: its thread becomes `t`, its locals become `l`.
Moves(i, t, l) ==
    inv' = [thread |-> [inv.thread EXCEPT ![i] = t],
            locals |-> [inv.locals EXCEPT ![slot(i)] = l]]

ConcEmbed(i) ==
    LET t == inv.thread[i] IN
    /\ t.pc = "embed"
    /\ \E resp \in ConcEmbedResponses :
        LET d == embed_query(t.query, resp) IN
        Moves(i, [t EXCEPT !.embedded = resp,
                           !.pc = IF d.out.kind = "raise" THEN "done" ELSE "search",
                           !.outcome = IF d.out.kind = "raise" THEN d.out ELSE @],
              inv.locals[slot(i)])
    /\ ConcUnchanged

ConcSearch(i) ==
    LET t == inv.thread[i] IN
    /\ t.pc = "search"
    /\ \E idxs \in IndexRows(Len(chunks), 1, ConcRows) :
        LET res == search_index(chunks, idxs)
            abort == run_query_after_search(res) = "abort"
        IN  Moves(i, [t EXCEPT !.rows = idxs,
                               !.pc = IF abort THEN "done" ELSE "rerank",
                               !.outcome = IF abort THEN Return("") ELSE @],
                  [inv.locals[slot(i)] EXCEPT !.results = res])
    /\ ConcUnchanged

ConcRerank(i) ==
    LET t == inv.thread[i]
        l == inv.locals[slot(i)]
    IN
    /\ t.pc = "rerank"
    /\ \E resp \in ConcRerankResponses(l.results) :
        LET d == rerank_results(t.query, l.results, resp)
            raised == d.out.kind = "raise"
            abort == ~raised /\ run_query_after_rerank(d.out.value) = "abort"
        IN  Moves(i, [t EXCEPT !.ranked = resp,
                               !.pc = IF raised \/ abort THEN "done" ELSE "prompt",
                               !.outcome = IF raised THEN d.out
                                           ELSE IF abort THEN Return("") ELSE @],
                  [l EXCEPT !.reranked = IF raised THEN @ ELSE d.out.value])
    /\ ConcUnchanged

ConcPrompt(i) ==
    LET t == inv.thread[i]
        l == inv.locals[slot(i)]
    IN
    /\ t.pc = "prompt"
    /\ Moves(i, [t EXCEPT !.pc = "generate"],
             [l EXCEPT !.prompt = build_prompt(t.query, l.reranked, reference_chunk(chunks))])
    /\ ConcUnchanged

ConcLLM(i) ==
    LET t == inv.thread[i]
        l == inv.locals[slot(i)]
    IN
    /\ t.pc = "generate"
    /\ \E resp \in ConcLLMResponses :
        Moves(i, [t EXCEPT !.completed = resp, !.asked = l.prompt, !.pc = "done",
                           !.outcome = call_llm(l.prompt, resp).out],
              l)
    /\ ConcUnchanged

ConcNext ==
    \E i \in Invocations :
        \/ ConcEmbed(i)
        \/ ConcSearch(i)
        \/ ConcRerank(i)
        \/ ConcPrompt(i)
        \/ ConcLLM(i)

SpecConc == ConcInit /\ [][ConcNext]_vars

----------------------------------------------------------------------------
(* Properties of the service *)

StageOrder == <<"embed", "search", "rerank", "prompt", "generate">>
Ended == pc \in {"returned", "responded"}
Sent(url) == \E i \in 1..Len(remote) : remote[i].url = url
ValidRows == {i \in 1..Len(rows) : rows[i] >= 0 /\ rows[i] < Len(chunks)}
ValidPositions ==
    {i \in 1..Len(response.results) :
        response.results[i].index >= 0 /\ response.results[i].index < Len(results)}
\* The stage run_query is in when it sends a request to `url`.
StageOf(url) ==
    CASE url = "embeddings" -> "embed"
      [] url = "rerank" -> "rerank"
      [] url = "chat/completions" -> "generate"

\* C1: the stages of run_query run in the order embed, search, rerank, prompt
\* assembly, generation; rerank is invoked only after search returned at least
\* one hit, generation only after rerank returned at least one ranked hit, and
\* once the query has ended (empty answer, raise or answer) no stage is invoked
\* for it.
C1_StageOrder ==
    /\ [](/\ calls = SubSeq(StageOrder, 1, Len(calls))
          /\ "rerank" \in Range(calls) => results # <<>>
          /\ "generate" \in Range(calls) => reranked # <<>>)
    /\ [][outcome.kind # "none" => Len(calls') <= Len(calls) /\ remote' \in {remote, <<>>}]_vars

\* A query went through all five stages and was answered.
C1_Witness == calls = StageOrder /\ outcome = Return("answer")

\* C2: when search yields no valid hit, or rerank answers 200 with no valid
\* ranked hit, run_query returns "" (it does not raise) and no request goes to
\* the Generation Client.
C2_EmptyAnswerOnNoHits ==
    /\ (calls # <<>> /\ Last(calls) = "search" /\ ValidRows = {})
          => Ended /\ outcome = Return("") /\ ~Sent("chat/completions")
    /\ (calls # <<>> /\ Last(calls) = "rerank" /\ response.status = HTTP_OK
            /\ ValidPositions = {})
          => Ended /\ outcome = Return("") /\ ~Sent("chat/completions")

\* Rerank answered 200 with results, none of them valid, and the query ended.
C2_Witness ==
    /\ pc = "responded" /\ calls # <<>> /\ Last(calls) = "rerank"
    /\ response.status = HTTP_OK /\ response.results # <<>> /\ ValidPositions = {}
    /\ outcome = Return("")

C8_NoAnswerDistinctFromFailure ==
    (pc = "responded" /\ outcome = Return(""))
        => http.status = 404 /\ http.status # 500

\* C9: an answered query is reported with both the answer and the
\* related_questions list.
C9_AnswerCarriesRelatedQuestions ==
    (pc = "responded" /\ outcome.kind = "return" /\ ~Falsy(outcome.value))
        => /\ http.status = HTTP_OK
           /\ "answer" \in DOMAIN http.body
           /\ "related_questions" \in DOMAIN http.body

\* C13: constructing the pipeline with the index artifact absent, or with the
\* Fragment Store artifact absent, ends in both cases with the exit of the
\* process, and no pipeline to call run_query on exists afterwards.
C13_MissingArtifactExits ==
    (pc # "start" /\ (~artifacts.index \/ ~artifacts.chunks)) => pc = "exited"

\* C17: a request to /ask without a query, or with an empty one, is answered
\* with status 400 'Query is required' and run_query is not invoked for it.
C17_MissingQueryIs400 ==
    (pc = "responded" /\ Falsy(query))
        => /\ http = HTTPException(400, "Query is required")
           /\ calls = <<>> /\ remote = <<>>

CountSent(url) == Cardinality({i \in 1..Len(remote) : remote[i].url = url})
Generated == calls # <<>> /\ Last(calls) = "generate" /\ response.status = HTTP_OK
Degraded ==
    /\ calls # <<>> /\ Last(calls) \in {"search", "rerank"}
    /\ results = <<>> \/ reranked = <<>>

\* C15: one run_query sends at most one embedding request, carrying exactly
\* one text, at most one rerank request and at most one generation request; a
\* request that failed is not sent again.
C15_AtMostOneRequestEach ==
    /\ \A url \in {"embeddings", "rerank", "chat/completions"} : CountSent(url) <= 1
    /\ \A i \in 1..Len(remote) :
        /\ remote[i].url \in {"embeddings", "rerank", "chat/completions"}
        /\ remote[i].url = "embeddings" => remote[i].input = <<query>>
    /\ response.status \in FailStatuses => CountSent(Last(remote).url) = 1

\* The embedding request failed, and the query ended with that one request sent.
C15_Witness ==
    /\ pc = "responded" /\ response.status \in FailStatuses
    /\ remote = <<Request("embeddings", <<query>>)>>

\* C18: the prompt handed to the Generation Client has one citation block per
\* ranked hit, in rerank order, and the block tagged with id X carries the
\* content the Fragment Store holds for X, whatever text the rerank response
\* echoed.
C18_PromptCarriesStoreContent ==
    prompt # <<>>
        => /\ Len(prompt.context) = Len(reranked)
           /\ \A i \in 1..Len(reranked) :
                /\ prompt.context[i][1] = reranked[i].article_id
                /\ \E j \in 1..Len(chunks) :
                      /\ chunks[j].id = prompt.context[i][1]
                      /\ chunks[j].content = prompt.context[i][2]

\* C19 as claimed: when generation is reached and succeeds the raw completion
\* is returned, and "" is returned only when search or rerank produced no
\* usable hit.
C19_EmptyOnlyWhenDegraded ==
    /\ (Ended /\ Generated) => outcome = Return(response.content)
    /\ (Ended /\ outcome = Return("")) => Degraded

\* C19 as amended: when generation is reached and succeeds the raw completion
\* is returned unmodified; "" is returned when search or rerank produced no
\* usable hit, or when the completion itself is empty.
C19_EmptyWhenDegradedOrEmptyCompletion ==
    /\ (Ended /\ Generated) => outcome = Return(response.content)
    /\ (Ended /\ outcome = Return(""))
          => Degraded \/ (Generated /\ response.content = "")

\* Generation succeeded with an empty completion, and run_query returned "".
C19_Witness ==
    /\ pc = "responded" /\ Generated /\ response.content = ""
    /\ reranked # <<>> /\ outcome = Return("")

----------------------------------------------------------------------------
(* Properties of the direct calls *)

Called(f) == pc = "called" /\ calls = <<f>>
\* How many valid places of P lie at or before place i.
Rank(P, i) == Cardinality({j \in P : j <= i})
Ids(s) == {s[i].id : i \in 1..Len(s)}

\* C4: search_index returns exactly the fragments at the rows lying in
\* [0, len(chunks)), in the order the index returned them; negative and
\* too-large rows are dropped, every returned id is an id of the Fragment
\* Store, and the call does not raise.
C4_SearchKeepsValidRowsInOrder ==
    Called("search_index")
        => /\ outcome = Return(results)
           /\ Len(results) = Cardinality(ValidRows)
           /\ \A i \in ValidRows :
                results[Rank(ValidRows, i)] =
                    [id |-> chunks[rows[i] + 1].id, content |-> chunks[rows[i] + 1].content]
           /\ Ids(results) \subseteq Ids(chunks)

\* A store of 3 fragments and the rows [0, 5, 1]: fragments 1 and 2, in that order.
C4_Witness ==
    /\ Called("search_index") /\ chunks = Store(3) /\ rows = <<0, 5, 1>>
    /\ results = <<Fragment(1), Fragment(2)>>

\* C5: rerank_results returns at most min(topN, len(candidates)) items, each
\* with the id of one of the candidates, whatever the remote response holds.
C5_RerankBound ==
    (Called("rerank_results") /\ outcome.kind = "return")
        => /\ Len(outcome.value) <= Min(rerank_result_count, Len(results))
           /\ \A i \in 1..Len(outcome.value) : outcome.value[i].article_id \in Ids(results)

\* C6: on a 200 response rerank_results returns exactly the results whose
\* position lies in [0, len(candidates)), in the order of the response, each
\* joined to the id of the candidate at that position; the others are dropped
\* and the call does not raise.
C6_RerankKeepsValidPositionsInOrder ==
    (Called("rerank_results") /\ response.status = HTTP_OK)
        => /\ outcome = Return(reranked)
           /\ Len(reranked) = Cardinality(ValidPositions)
           /\ \A i \in ValidPositions :
                reranked[Rank(ValidPositions, i)] =
                    [document |-> response.results[i].document,
                     relevance_score |-> response.results[i].relevance_score,
                     article_id |-> results[response.results[i].index + 1].id]

\* Two candidates, a response naming position 0 and then a position past the
\* batch: only the first survives.
C6_Witness ==
    /\ Called("rerank_results") /\ Len(results) = 2 /\ Len(response.results) = 2
    /\ response.results[1].index = 0 /\ response.results[2].index >= Len(results)
    /\ Len(reranked) = 1 /\ reranked[1].article_id = results[1].id

\* C7: rerank_results called with no candidates returns the empty list and
\* sends no request.
C7_EmptyCandidatesNoRemoteCall ==
    (Called("rerank_results") /\ results = <<>>)
        => outcome = Return(<<>>) /\ remote = <<>>

\* rerank_results was called with the empty candidate list.
C7_Witness == Called("rerank_results") /\ results = <<>> /\ outcome.kind = "return"

\* C10: generate_related_questions returns a list of at most 3 items whatever
\* the text of the completion.
C10_RelatedQuestionsBound ==
    Called("generate_related_questions")
        => /\ outcome.kind = "return"
           /\ outcome.value = questions
           /\ Len(questions) >= 0 /\ Len(questions) <= MaxQuestions

\* A completion of four lines, each a question long enough, numbered or not:
\* three are returned.
C10_Witness ==
    /\ Called("generate_related_questions") /\ response.status = HTTP_OK
    /\ Len(parse_questions_unbounded(response.content)) > MaxQuestions
    /\ \E i \in 1..Len(response.content) : response.content[i] = "1"
    /\ Len(questions) = MaxQuestions

\* C11: generate_related_questions never raises: an exception of the remote
\* call, a non-success status and a body that cannot be read each make it
\* return the empty list.
C11_RelatedQuestionsNeverRaises ==
    Called("generate_related_questions")
        => /\ outcome.kind = "return"
           /\ (response.status # HTTP_OK \/ response.text # "ok") => outcome.value = <<>>

\* The request raised, a status of failure came back, or the body was not the
\* expected JSON, and the empty list was returned.
C11_Witness ==
    /\ Called("generate_related_questions") /\ outcome = Return(<<>>)
    /\ \/ response.status = NoStatus
       \/ response.status \in FailStatuses
       \/ response.status = HTTP_OK /\ response.text # "ok"

\* C12: direction detection answers RTL exactly when the alphabetic characters
\* lying in U+0600..U+06FF are strictly more than half of all alphabetic
\* characters of the text, and LTR otherwise, also at exactly one half and for
\* a text without alphabetic characters.
C12_DirectionByAlphabeticShare ==
    Called("detect_language")
        => LET arabic_letters ==
                   Cardinality({i \in 1..Len(query) :
                                   query[i].alpha /\ InArabicRange(query[i])})
               letters == Cardinality({i \in 1..Len(query) : query[i].alpha})
           IN  outcome = Return(IF 2 * arabic_letters > letters THEN "rtl" ELSE "ltr")

----------------------------------------------------------------------------
(* Properties of concurrent invocations *)

\* What invocation i would hand to call_llm when run alone.
PromptAlone(i) ==
    LET t == inv.thread[i] IN
    build_prompt(t.query,
                 rerank_results(t.query, search_index(chunks, t.rows), t.ranked).out.value,
                 reference_chunk(chunks))

\* C14: under any interleaving of concurrent run_query invocations on one
\* pipeline the Fragment Store is never modified, and each invocation ends as
\* it would when run alone with the same index rows and remote responses: the
\* same result, computed from the same prompt.
C14_InvocationsDoNotInterfere ==
    /\ [](\A i \in Invocations :
            LET t == inv.thread[i] IN
            /\ t.pc = "done"
                  => t.outcome = run_query(t.query, t.embedded, t.rows, t.ranked, t.completed)
            /\ t.completed # NoResponse => t.asked = PromptAlone(i))
    /\ [][chunks' = chunks]_vars

\* Both invocations ran interleaved to the end with different hits: one was
\* answered, the other found nothing.
C14_Witness ==
    /\ pc = "serving"
    /\ inv.thread["a"].outcome = Return("answer")
    /\ inv.thread["b"].pc = "done" /\ inv.thread["b"].outcome = Return("")
    /\ inv.thread["b"].ranked.status = HTTP_OK

====
